---- MODULE Spec2Model ----
(***************************************************************************)
(* InstaConnect: the process supervisor (BotManager), the DM watcher loop  *)
(* (bot script) and the login orchestrator (instagramLogin).               *)
(*                                                                         *)
(* The specifications share the module's variables; each one drives one    *)
(* component and leaves the variables of the other two untouched:          *)
(*   SpecBot     - BotManager.startBot / stopBot and the child's events    *)
(*                 (SpecBotOutput: with the child's output events;         *)
(*                  SpecBotStatus: with getStatus and its caller;          *)
(*                  SpecLog: addLog on a buffer near its capacity)         *)
(*   SpecWatcher - the watcher's main loop, handle_new_dm and the sender   *)
(*                 (SpecWatcherAudit: one message under observation;       *)
(*                  SpecWatcherRerun: each tracker write remembered;       *)
(*                  SpecWatcherBoot: from the load of the tracker file)    *)
(*                  SpecWatcherRestart: stopped and started again;         *)
(*                  SpecWatcherLive: with cancellation, under fairness)    *)
(*   SpecLogin   - instagramLogin and the login process's events           *)
(*                 (SpecLoginScript: with the login process followed;      *)
(*                  SpecLoginLive: fs.access settles, the process may not; *)
(*                  SpecLoginRoute: through POST /api/login)               *)
(***************************************************************************)
EXTENDS Integers, Sequences, FiniteSets, TLC

\* ------------------------------------------------------------------ bounds
\* BotManager: how many startBot/stopBot calls a run holds (each spawns at most once)
MaxCalls == 3
\* how many stdout/stderr data events the children emit in a run
MaxOutput == 1
\* watcher: the message identifiers of a thread, and how many messages a fetch returns for it
MaxMsgs == 4
MaxLen == 3
\* SpecLog: how many entries are appended to the buffer drawn at the start
MaxAppends == 3

\* ---------------------------------------------------------- program constants
maxLogs == 1000
\* try_reply_with_backoff(thread_id, text, retries=3)
retries == 3

VARIABLES
    \* --- BotManager (dashboard.tsx 304-424)
    botProcess,     \* this.botProcess: 0 is null, otherwise the child's number
    logs,           \* this.logs
    children,       \* the ChildProcess objects spawned so far and their OS processes
    calls,          \* the startBot/stopBot invocations: position, result, what they saw
    sessionFiles,   \* the usernames u for which the file u_session.json exists
    nOutput,        \* number of data events so far
    status,         \* the BotStatus object returned by the last getStatus call, as its
                    \* caller holds it (followed by SpecBotStatus)
    captured,       \* every entry handed to addLog so far, in capture order (SpecLog)
    \* --- watcher (part_000)
    wpc,            \* where the script is: "loop", "for", "scan", "send", "replied", "cooldown"
                    \* ("boot": before the tracker is loaded; "crashed": ended by an
                    \* exception; "stopped": ended by KeyboardInterrupt or a signal)
    queue,          \* the threads of this cycle's fetch that the for loop has not reached yet
    thread,         \* the loop variable `thread`: [id, messages]
    idx,            \* position of handle_new_dm's loop in thread.messages
    last_seen,      \* handle_new_dm's local last_seen (0 is None)
    username,       \* handle_new_dm's local username
    attempt,        \* try_reply_with_backoff's loop variable i
    success,        \* handle_new_dm's local success
    replied_tracker,\* the in-memory tracker: thread id -> last_replied_msg_id (0: no entry)
    tracker_file,   \* the tracker as persisted in TRACKER_FILE
    \* history of the current handle_new_dm call
    sends,          \* outcomes of the direct_answer calls of the current try_reply_with_backoff
    delays,         \* the time.sleep durations of the current try_reply_with_backoff
    senderCalls,    \* try_reply_with_backoff invocations
    seenCalls,      \* direct_send_seen invocations of the current call (readable until the
                    \* for loop goes on)
    evaluated,      \* the messages whose text / media_share was tested
    target,         \* the message passed to the sender (0: none)
    prev,           \* the last tracker write, while the next handle_new_dm call may be
                    \* one on the same thread:
                    \* [id, messages, m] - thread, its messages, the identifier written
                    \* (kept by SpecWatcherRerun only; PrevOff elsewhere)
    rerun,          \* M when this call handles the same thread with the same messages as the
                    \* previous call, which set the tracker entry to M (0 otherwise)
    \* observer of one message, chosen at the start (SpecWatcherAudit)
    audit,          \* [t, m]: the observed message
    auditTracked,   \* a tracker entry has been written for the observed message
    trigger_messages,\* the keys of output/trigger_messages.json: the messages with a
                    \* TriggerMessageRecord
    inbox,          \* SpecWatcherRestart: the messages the remote service holds for each
                    \* thread, the same at every fetch (InboxOff elsewhere)
    repliedOk,      \* SpecWatcherRestart: the <<thread, message>> pairs for which a
                    \* direct_answer call succeeded
    boot,           \* [found, rewritten]: the condition of TRACKER_FILE when the script
                    \* started, and whether the startup wrote the file (SpecWatcherBoot)
    \* --- instagramLogin (part_001), one call at a time
    lpc,            \* where the call is: "idle", "access", "running", "done"
    params,         \* the call's LoginParams
    args,           \* the argument list handed to spawn (<<>>: nothing spawned)
    stdin,          \* what the call wrote to the login process's stdin
    stdout,         \* the closure variable stdout: the chunks received so far
    stderr,         \* the closure variable stderr: the chunks received so far
    result,         \* what the returned promise settled with
    spawns,         \* login processes spawned by the call
    ended,          \* the event that settled the call's promise: "code0", "code1" (close
                    \* with that exit code), "error"; "none" before
    \* --- the login process (server/instagram_login.py), followed by SpecLoginScript
    remote,         \* the remote service's answer to the process of the current call:
                    \* "none" until it answers ("off": the process is not followed)
    writes,         \* session-file writes of the process of the current call
    \* --- POST /api/login (routes.ts 9-37), followed by SpecLoginRoute
    req,            \* req.body of the latest request
    res             \* the response sent for it: [status, body] (status 0: none yet)

botVars == <<botProcess, logs, children, calls, sessionFiles, nOutput, status, captured>>
watcherVars == <<wpc, queue, thread, idx, last_seen, username, attempt, success,
                 replied_tracker, tracker_file, sends, delays, senderCalls, seenCalls,
                 evaluated, target, prev, rerun, audit, auditTracked, boot,
                 trigger_messages, inbox, repliedOk>>

scriptVars == <<remote, writes>>
routeVars == <<req, res>>
loginVars == <<lpc, params, args, stdin, stdout, stderr, result, spawns, ended,
               scriptVars, routeVars>>

vars == <<botVars, watcherVars, loginVars>>

\* ------------------------------------------------------------------ values
Usernames == {"alice", "bob"}
\* the account whose session file comes and goes while the supervisor runs
BotAccounts == {"alice"}
Calls == 1..MaxCalls
Children == 1..MaxCalls

NoChild == [st |-> "none", killed |-> FALSE, term |-> FALSE, kill9 |-> FALSE]
\* conc: the startBot calls that were suspended at their await when this one was invoked;
\* target: the child a stopBot call sent SIGTERM to
NoCall == [op |-> "none", pc |-> "idle", result |-> "none", spawned |-> 0, conc |-> {},
           target |-> 0]

\* The chunks a child writes to stdout/stderr, and String.prototype.trim on them
Chunks == {"", " \n", "line\n"}
Trim(s) == CASE s = " \n" -> ""
             [] s = "line\n" -> "line"
             [] OTHER -> s

Live(ch) == {c \in Children : ch[c].st = "alive"}

\* ------------------------------------------------------------------ BotManager
\* addLog: push, then keep only the last maxLogs entries (the timestamp prefix is
\* the capture time; entries are kept in capture order)
\* (faulty variant) slice(0, maxLogs): the first n entries are kept
LastN_Oldest(s, n) == IF Len(s) > n THEN SubSeq(s, 1, n) ELSE s

\* slice(-maxLogs): the last n entries
LastN(s, n) == IF Len(s) > n THEN SubSeq(s, Len(s) - n + 1, Len(s)) ELSE s
addLog(lg, message) ==
    LET pushed == Append(lg, message)
    IN  IF Len(pushed) > maxLogs THEN LastN(pushed, maxLogs) ELSE pushed

\* (faulty variant) the guard with the `killed` test inverted
HandleLive_Inverted(bp, ch) == bp # 0 /\ ch[bp].killed

\* the guard `this.botProcess && !this.botProcess.killed`
HandleLive(bp, ch) == bp # 0 /\ ~ch[bp].killed

\* ChildProcess.kill(sig): the signal is sent while the OS process exists (running,
\* or dead and not yet reaped); `killed` records that a signal was sent, not that
\* the process ended
Kill(ch, c, sig) ==
    IF ch[c].st \in {"alive", "dead"}
    THEN [ch EXCEPT ![c].killed = TRUE,
                    ![c].term = @ \/ (sig = "SIGTERM"),
                    ![c].kill9 = @ \/ (sig = "SIGKILL")]
    ELSE ch

\* (faulty variant) the directory listing is returned without the filter
findSessionFiles_NoFilter(files, readdirOk) ==
    IF readdirOk THEN files \cup {"package.json"} ELSE {}

\* readdir(".") filtered by the suffix "_session.json"; [] when readdir fails
findSessionFiles(files, readdirOk) == IF readdirOk THEN files ELSE {}

\* startBot up to its await: the already-running guard
StartCall(k) ==
    /\ calls[k].op = "none"
    /\ \A j \in Calls : j < k => calls[j].op # "none"
    /\ LET awaiting == {j \in Calls : calls[j].op = "start" /\ calls[j].pc = "await"}
           mine == [NoCall EXCEPT !.op = "start", !.conc = awaiting]
       IN  IF HandleLive(botProcess, children)
           THEN calls' = [calls EXCEPT ![k] =
                     [mine EXCEPT !.pc = "done", !.result = "AlreadyRunning"]]
           ELSE calls' = [calls EXCEPT ![k] = [mine EXCEPT !.pc = "await"]]
    /\ UNCHANGED <<botProcess, logs, children, sessionFiles, nOutput>>

\* the child's "error" event handler (a failed spawn is reported on the next tick,
\* before any other callback of the supervisor runs)
OnError(lg) == addLog(lg, "Bot process error")

\* startBot after findSessionFiles resolved: session check, spawn, handlers, return
StartResume(k, readdirOk, spawnOutcome) ==
    /\ calls[k].op = "start" /\ calls[k].pc = "await"
    /\ LET found == findSessionFiles(sessionFiles, readdirOk)
           fresh == {c \in Children : children[c].st = "none"}
       IN  IF found = {}
           THEN /\ calls' = [calls EXCEPT ![k].pc = "done", ![k].result = "NoSession"]
                /\ UNCHANGED <<botProcess, logs, children>>
           ELSE /\ fresh # {}
                /\ LET c == CHOOSE x \in fresh : \A y \in fresh : x <= y
                   IN  CASE spawnOutcome = "ok" ->
                              /\ children' = [children EXCEPT ![c].st = "alive"]
                              /\ botProcess' = c
                              /\ logs' = addLog(logs, "Starting Instagram bot")
                              /\ calls' = [calls EXCEPT ![k].pc = "done",
                                             ![k].result = "Started", ![k].spawned = c]
                         [] spawnOutcome = "errorEvent" ->
                              /\ children' = [children EXCEPT ![c].st = "failed"]
                              /\ botProcess' = 0
                              /\ logs' = OnError(addLog(logs, "Starting Instagram bot"))
                              /\ calls' = [calls EXCEPT ![k].pc = "done",
                                             ![k].result = "Started", ![k].spawned = c]
                         [] OTHER ->
                              /\ logs' = addLog(logs, "Failed to start bot")
                              /\ calls' = [calls EXCEPT ![k].pc = "done",
                                             ![k].result = "StartFailed"]
                              /\ UNCHANGED <<botProcess, children>>
    /\ UNCHANGED <<sessionFiles, nOutput>>

\* stopBot up to its await: guard, SIGTERM, start of the 2 s grace wait
StopCall(k) ==
    /\ calls[k].op = "none"
    /\ \A j \in Calls : j < k => calls[j].op # "none"
    /\ IF ~HandleLive(botProcess, children)
       THEN /\ calls' = [calls EXCEPT ![k] =
                   [NoCall EXCEPT !.op = "stop", !.pc = "done", !.result = "NotRunning"]]
            /\ UNCHANGED children
       ELSE /\ children' = Kill(children, botProcess, "SIGTERM")
            /\ calls' = [calls EXCEPT ![k] =
                   [NoCall EXCEPT !.op = "stop", !.pc = "grace", !.target = botProcess]]
    /\ UNCHANGED <<botProcess, logs, sessionFiles, nOutput>>

\* stopBot after the grace wait: force kill if the handle is still live, log, return
StopResume(k) ==
    /\ calls[k].op = "stop" /\ calls[k].pc = "grace"
    /\ children' = IF HandleLive(botProcess, children)
                   THEN Kill(children, botProcess, "SIGKILL")
                   ELSE children
    /\ logs' = addLog(logs, "Bot stop requested")
    /\ calls' = [calls EXCEPT ![k].pc = "done", ![k].result = "Stopped"]
    /\ UNCHANGED <<botProcess, sessionFiles, nOutput>>

\* the OS process ends (on its own, or by a signal that was sent to it); the
\* supervisor learns of it only by the exit event
ChildEnds(c) ==
    /\ children[c].st = "alive"
    /\ children' = [children EXCEPT ![c].st = "dead"]
    /\ UNCHANGED <<botProcess, logs, calls, sessionFiles, nOutput>>

\* what an exit event can report for a child: an exit code, or a signal sent to it
ExitCauses(ch, c) ==
    {"code0", "code1"} \cup (IF ch[c].term THEN {"SIGTERM"} ELSE {})
                       \cup (IF ch[c].kill9 THEN {"SIGKILL"} ELSE {})

ExitMessage(how) ==
    IF how = "SIGTERM" THEN "Bot stopped by user"
    ELSE IF how # "code0" THEN "Bot exited with code"
    ELSE "Bot stopped normally"

\* (faulty variant) the exit handler logs and leaves the handle as it is
OnExit_KeepsHandle(c, how) ==
    /\ children[c].st = "dead"
    /\ how \in ExitCauses(children, c)
    /\ children' = [children EXCEPT ![c].st = "reaped"]
    /\ logs' = addLog(logs, ExitMessage(how))
    /\ UNCHANGED <<botProcess, calls, sessionFiles, nOutput>>

\* the child's "exit" event handler
OnExit(c, how) ==
    /\ children[c].st = "dead"
    /\ how \in ExitCauses(children, c)
    /\ children' = [children EXCEPT ![c].st = "reaped"]
    /\ logs' = addLog(logs, ExitMessage(how))
    /\ botProcess' = 0
    /\ UNCHANGED <<calls, sessionFiles, nOutput>>

\* the stdout / stderr "data" handlers
OnData(c, data) ==
    /\ children[c].st = "alive"
    /\ nOutput < MaxOutput
    /\ nOutput' = nOutput + 1
    /\ logs' = IF Trim(data) # "" THEN addLog(logs, Trim(data)) ELSE logs
    /\ UNCHANGED <<botProcess, children, calls, sessionFiles>>

OnStdout(c, data) == OnData(c, data)
OnStderr(c, data) == OnData(c, data)

\* a login elsewhere writes a session file, or somebody removes one
SessionFileChange(u) ==
    /\ sessionFiles' = IF u \in sessionFiles THEN sessionFiles \ {u} ELSE sessionFiles \cup {u}
    /\ UNCHANGED <<botProcess, logs, children, calls, nOutput>>

\* no getStatus call yet
NoStatus == [taken |-> FALSE, isRunning |-> FALSE, logs |-> <<>>, asReturned |-> <<>>,
             shared |-> FALSE, mutated |-> FALSE]

\* (faulty variant) getStatus returns this.logs itself
getStatus_SameArray(bp, ch, lg) ==
    [taken |-> TRUE, isRunning |-> bp # 0 /\ ~ch[bp].killed, logs |-> lg,
     asReturned |-> lg, shared |-> TRUE, mutated |-> FALSE]

\* getStatus's return value: isRunning, and logs, a new array with the buffer's entries
\* (shared: the returned array is the object this.logs; asReturned: its entries when
\* it was returned)
getStatus(bp, ch, lg) ==
    [taken |-> TRUE, isRunning |-> bp # 0 /\ ~ch[bp].killed, logs |-> lg,
     asReturned |-> lg, shared |-> FALSE, mutated |-> FALSE]

\* a getStatus call; the caller holds the returned object
GetStatusCall ==
    /\ ~status.taken
    /\ status' = getStatus(botProcess, children, logs)
    /\ UNCHANGED <<botProcess, logs, children, calls, sessionFiles, nOutput>>

\* the caller pushes an entry onto the array it was given; a push onto an array that
\* is this.logs is a push onto the buffer
CallerPushes ==
    /\ status.taken /\ ~status.mutated
    /\ status' = [status EXCEPT !.logs = Append(@, "caller"), !.mutated = TRUE]
    /\ logs' = IF status.shared THEN Append(logs, "caller") ELSE logs
    /\ UNCHANGED <<botProcess, children, calls, sessionFiles, nOutput>>

\* what a step of the supervisor does to the object the caller holds: addLog's push
\* is in place, so an array that is this.logs changes with it (the buffers of
\* SpecBotStatus stay below maxLogs, where addLog does not replace the array)
StatusFollows ==
    status' = IF status.shared THEN [status EXCEPT !.logs = logs'] ELSE status

\* entries the event handlers and startBot hand to addLog: a start entry, a line of
\* the child's output, an exit entry
LogMessages == {"Starting Instagram bot", "line", "Bot stopped by user"}

\* one addLog call
AddLogCall(message) ==
    /\ Len(captured) < maxLogs + MaxAppends
    /\ logs' = addLog(logs, message)
    /\ captured' = Append(captured, message)
    /\ UNCHANGED <<botProcess, children, calls, sessionFiles, nOutput, status>>

\* a buffer after n addLog calls
BufferOf(n) == [i \in 1..n |-> IF i % 3 = 0 THEN "line"
                              ELSE IF i % 3 = 1 THEN "Starting Instagram bot"
                              ELSE "Bot stopped normally"]

BotStart ==
    /\ botProcess = 0
    /\ logs = <<>>
    /\ children = [c \in Children |-> NoChild]
    /\ calls = [k \in Calls |-> NoCall]
    /\ nOutput = 0
    /\ status = NoStatus
    /\ captured = <<>>

\* ------------------------------------------------------------------ watcher
Threads == {"t1", "t2"}
Msgs == 1..MaxMsgs
NoThread == [id |-> "none", messages |-> <<>>]
NoAudit == [t |-> "none", m |-> 0]
NoPrev == [id |-> "none", messages |-> <<>>, m |-> 0]
PrevOff == [id |-> "off", messages |-> <<>>, m |-> 0]

\* the messages of the remote inbox: what msg.text, msg.media_share and msg.user_id
\* hold for each message identifier
NoText == [null |-> TRUE, s |-> <<>>]
Str(s) == [null |-> FALSE, s |-> s]
Text(m) ==
    CASE m % 4 = 1 -> Str(<<"H", "e", "l", "l", "o">>)
      [] m % 4 = 2 -> Str(<<"a", " ", "H", "e", "L", "p", "!">>)
      [] m % 4 = 3 -> NoText
      [] OTHER -> NoText
MediaShare(m) == m % 4 = 0
UserId(m) == m % 2

\* the configured trigger phrases
TRIGGERS == {<<"h", "e", "l", "p">>}

\* str.lower
LowerChar(c) ==
    CASE c = "H" -> "h" [] c = "E" -> "e" [] c = "L" -> "l" [] c = "O" -> "o"
      [] c = "P" -> "p" [] c = "A" -> "a" [] c = "C" -> "c" [] c = "F" -> "f"
      [] c = "T" -> "t" [] c = "W" -> "w" [] OTHER -> c
Lower(s) == [i \in 1..Len(s) |-> LowerChar(s[i])]
\* `t in text`
Contains(s, t) == \E i \in 0..(Len(s) - Len(t)) : SubSeq(s, i + 1, i + Len(t)) = t
\* `msg.text or ""`
OrEmpty(text) == IF text.null THEN <<>> ELSE text.s

\* (faulty variant) a message without text is taken for a media share
IsTrigger_OrNoText(m) ==
    LET text == Lower(OrEmpty(Text(m)))
    IN  (\E t \in TRIGGERS : Contains(text, t)) \/ MediaShare(m) \/ Text(m).null

\* the test of line 59: any(t in text for t in TRIGGERS) or msg.media_share
IsTrigger(m) ==
    LET text == Lower(OrEmpty(Text(m)))
    IN  (\E t \in TRIGGERS : Contains(text, t)) \/ MediaShare(m)

\* (faulty variant) the scan never recognises the tracked message
IsLastSeen_Never(m, last) == FALSE

\* the test of line 55: msg.id == last_seen
IsLastSeen(m, last) == m = last

\* (faulty variant) the loop goes on to the next message after a reply
ContinueAt_NoBreak(i, n, afterReply) == i + 1

\* where handle_new_dm's loop continues: the next message, or past the end after
\* the `break` that follows a reply
ContinueAt(i, n, afterReply) == IF afterReply THEN n + 1 ELSE i + 1

\* (faulty variant) a constant delay
Delay_Constant(i) == 1

\* the backoff of line 47: time.sleep(2 ** i)
Delay(i) == 2 ^ i

\* safe_username: the looked-up name, or user_<id> when the lookup fails
safe_username(user_id, lookupOk) == IF lookupOk THEN <<"name", user_id>> ELSE <<"user_", user_id>>

\* the lists a fetch can return: threads in any order, each once
ThreadLists == {<<>>} \cup {<<t>> : t \in Threads}
                      \cup {l \in {<<a, b>> : a, b \in Threads} : l[1] # l[2]}
\* the messages of a fetched thread: distinct identifiers, in any order
RECURSIVE Lists(_)
Lists(n) ==
    IF n = 0 THEN {<<>>}
    ELSE LET shorter == Lists(n - 1)
         IN  shorter \cup {Append(l, m) : l \in {x \in shorter : Len(x) = n - 1},
                                            m \in Msgs}
Distinct(l) == \A i, j \in 1..Len(l) : i # j => l[i] # l[j]
MessageLists == {l \in Lists(MaxLen) : Distinct(l)}

handleVars == <<idx, last_seen, username, attempt, success, sends, delays, senderCalls,
                seenCalls, evaluated, target, prev, rerun>>
\* the locals of handle_new_dm and of try_reply_with_backoff
localVars == <<idx, last_seen, username, attempt, success, sends, delays, senderCalls,
               seenCalls, evaluated, target>>
\* handle_new_dm is left (by return or by an exception): its locals are gone
ReturnLocals ==
    /\ idx' = 0 /\ last_seen' = 0 /\ username' = <<>> /\ attempt' = 0 /\ success' = FALSE
    /\ sends' = <<>> /\ delays' = <<>> /\ senderCalls' = 0
    /\ evaluated' = {} /\ target' = 0 /\ rerun' = 0
    /\ thread' = NoThread
Return == ReturnLocals /\ seenCalls' = 0

\* safe_threads(10) at the top of a cycle: the fetched list, or [] when the fetch fails
FetchThreads(ok, lst) ==
    /\ wpc = "loop"
    /\ queue' = IF ok THEN lst ELSE <<>>
    /\ wpc' = "for"
    /\ prev' = IF prev = PrevOff \/ (queue' # <<>> /\ Head(queue') = prev.id)
               THEN prev ELSE NoPrev
    /\ UNCHANGED <<thread, replied_tracker, tracker_file, localVars, rerun, audit, auditTracked>>

\* the for loop takes the next fetched thread (its messages are what the remote
\* service returned for it) and, if it has messages, enters handle_new_dm (lines 51-52)
NextThread(msgs) ==
    /\ wpc = "for" /\ queue # <<>>
    /\ queue' = Tail(queue)
    /\ IF msgs = <<>>
       THEN /\ prev' = IF prev = PrevOff THEN prev ELSE NoPrev
            /\ seenCalls' = 0
            /\ UNCHANGED <<wpc, thread, idx, last_seen, username, attempt, success, sends,
                           delays, senderCalls, evaluated, target, rerun>>
       ELSE /\ wpc' = "scan"
            /\ thread' = [id |-> Head(queue), messages |-> msgs]
            /\ last_seen' = replied_tracker[Head(queue)]
            /\ idx' = 1
            /\ username' = <<>> /\ attempt' = 0 /\ success' = FALSE
            /\ sends' = <<>> /\ delays' = <<>>
            /\ senderCalls' = 0 /\ seenCalls' = 0
            /\ evaluated' = {} /\ target' = 0
            /\ rerun' = IF prev.id = Head(queue) /\ prev.messages = msgs THEN prev.m ELSE 0
            /\ prev' = IF prev = PrevOff THEN prev ELSE NoPrev
    /\ UNCHANGED <<replied_tracker, tracker_file, audit, auditTracked>>

\* the for loop is through: time.sleep(15), next cycle
EndCycle ==
    /\ wpc = "for" /\ queue = <<>>
    /\ wpc' = "loop"
    /\ seenCalls' = 0
    /\ UNCHANGED <<queue, thread, replied_tracker, tracker_file, idx, last_seen, username,
                   attempt, success, sends, delays, senderCalls, evaluated, target, prev,
                   rerun, audit, auditTracked>>

\* one iteration of handle_new_dm's loop (lines 54-66, 79-80): stop at the tracked
\* message; on a trigger look up the username and call the sender; else go on
ScanStep(lookupOk) ==
    /\ wpc = "scan"
    /\ IF idx > Len(thread.messages)
       THEN wpc' = "for" /\ Return
       ELSE LET msg == thread.messages[idx]
            IN  IF IsLastSeen(msg, last_seen)
                THEN wpc' = "for" /\ Return
                ELSE /\ evaluated' = evaluated \cup {msg}
                     /\ IF IsTrigger(msg)
                        THEN /\ username' = safe_username(UserId(msg), lookupOk)
                             /\ target' = msg
                             /\ senderCalls' = senderCalls + 1
                             /\ attempt' = 0 /\ sends' = <<>> /\ delays' = <<>>
                             /\ wpc' = "send"
                             /\ UNCHANGED idx
                        ELSE /\ idx' = ContinueAt(idx, Len(thread.messages), FALSE)
                             /\ UNCHANGED <<wpc, username, attempt, sends, delays,
                                            senderCalls, target>>
                     /\ UNCHANGED <<thread, last_seen, success, seenCalls, rerun>>
    /\ UNCHANGED <<queue, replied_tracker, tracker_file, prev, audit, auditTracked>>

\* one iteration of try_reply_with_backoff's loop (lines 41-47): direct_answer
\* succeeds, fails with UnknownError (sleep, next attempt) or raises something else,
\* which nothing catches before the main loop (lines 92-94)
SendAttempt(outcome) ==
    /\ wpc = "send" /\ attempt < retries
    /\ CASE outcome = "ok" ->
              /\ sends' = Append(sends, outcome)
              /\ success' = TRUE /\ wpc' = "replied"
              /\ UNCHANGED <<thread, idx, last_seen, username, attempt, delays, senderCalls,
                             seenCalls, evaluated, target, rerun>>
         [] outcome = "UnknownError" ->
              /\ sends' = Append(sends, outcome)
              /\ delays' = Append(delays, Delay(attempt))
              /\ attempt' = attempt + 1
              /\ UNCHANGED <<thread, wpc, success, idx, last_seen, username, senderCalls,
                             seenCalls, evaluated, target, rerun>>
         [] OTHER ->
              wpc' = "cooldown" /\ Return
    /\ UNCHANGED <<queue, replied_tracker, tracker_file, prev, audit, auditTracked>>

\* try_reply_with_backoff's loop is through: return False (line 48)
SendExhausted ==
    /\ wpc = "send" /\ attempt >= retries
    /\ success' = FALSE /\ wpc' = "replied"
    /\ UNCHANGED <<queue, thread, idx, last_seen, username, attempt, replied_tracker,
                   tracker_file, sends, delays, senderCalls, seenCalls, evaluated, target,
                   prev, rerun, audit, auditTracked>>

\* (faulty variant) the tracker is replaced by one that holds the new entry only
SetEntry_Replace(tracker, id, m) == [t \in Threads |-> IF t = id THEN m ELSE 0]

\* replied_tracker[thread_id] = {"last_replied_msg_id": msg.id}
SetEntry(tracker, id, m) == [tracker EXCEPT ![id] = m]

\* utils.save_json(TRACKER_FILE, data): the file's content afterwards is the whole of
\* data, written in full
save_json(data) == data

\* (faulty variant) direct_send_seen is called outside a try: its failure leaves
\* handle_new_dm as an exception
AfterReply_SeenUncaught(seenOk) ==
    /\ wpc = "replied"
    /\ IF ~success /\ ~seenOk
       THEN /\ seenCalls' = seenCalls + 1
            /\ wpc' = "cooldown" /\ ReturnLocals
            /\ UNCHANGED <<queue, replied_tracker, tracker_file, prev, audit, auditTracked>>
       ELSE /\ seenCalls' = IF success THEN seenCalls ELSE seenCalls + 1
            /\ replied_tracker' = SetEntry(replied_tracker, thread.id, thread.messages[idx])
            /\ tracker_file' = save_json(replied_tracker')
            /\ prev' = IF prev = PrevOff THEN prev
                       ELSE [id |-> thread.id, messages |-> thread.messages, m |-> thread.messages[idx]]
            /\ auditTracked' = (auditTracked \/ (audit = [t |-> thread.id, m |-> thread.messages[idx]]))
            /\ IF ContinueAt(idx, Len(thread.messages), TRUE) > Len(thread.messages)
               THEN wpc' = "for" /\ ReturnLocals
               ELSE /\ idx' = ContinueAt(idx, Len(thread.messages), TRUE)
                    /\ wpc' = "scan"
                    /\ UNCHANGED <<thread, last_seen, username, attempt, success, sends, delays,
                                   senderCalls, evaluated, target, rerun>>
            /\ UNCHANGED <<queue, audit>>

\* handle_new_dm after the sender returned (lines 67-77): mark as seen when the
\* reply failed (an error there is printed only), update and save the tracker, break,
\* which ends the call (seenCalls stays readable until the next call)
AfterReply(seenOk) ==
    /\ wpc = "replied"
    /\ seenCalls' = IF success THEN seenCalls ELSE seenCalls + 1
    /\ replied_tracker' = SetEntry(replied_tracker, thread.id, thread.messages[idx])
    /\ tracker_file' = save_json(replied_tracker')
    /\ prev' = IF prev = PrevOff THEN prev
               ELSE [id |-> thread.id, messages |-> thread.messages, m |-> thread.messages[idx]]
    /\ auditTracked' = (auditTracked \/ (audit = [t |-> thread.id, m |-> thread.messages[idx]]))
    /\ IF ContinueAt(idx, Len(thread.messages), TRUE) > Len(thread.messages)
       THEN wpc' = "for" /\ ReturnLocals
       ELSE /\ idx' = ContinueAt(idx, Len(thread.messages), TRUE)
            /\ wpc' = "scan"
            /\ UNCHANGED <<thread, last_seen, username, attempt, success, sends, delays,
                           senderCalls, evaluated, target, rerun>>
    /\ UNCHANGED <<queue, audit>>

\* (faulty variant) the main loop has no `except Exception`: the exception ends the
\* script
Cooldown_Uncaught ==
    /\ wpc = "cooldown"
    /\ wpc' = "crashed"
    /\ UNCHANGED <<queue, thread, replied_tracker, tracker_file, handleVars, audit, auditTracked>>

\* the main loop's `except Exception`: print, time.sleep(30), next cycle
Cooldown ==
    /\ wpc = "cooldown"
    /\ wpc' = "loop"
    /\ UNCHANGED <<queue, thread, replied_tracker, tracker_file, handleVars, audit, auditTracked>>

NoTracker == [t \in Threads |-> 0]
TrackerFiles == [Threads -> 0..MaxMsgs]

\* the startup is not followed
NoBoot == [found |-> "off", rewritten |-> FALSE]

\* what the script may find at TRACKER_FILE: a JSON document, no file, a text that is
\* not JSON, bytes that are not UTF-8
TrackerFileStates == {"valid", "missing", "invalidJSON", "invalidUTF8"}

\* the tracker load at the script's start (lines 17-22): open and json.load; on
\* FileNotFoundError or JSONDecodeError the tracker is {} and is saved; any other
\* exception (UnicodeDecodeError from the read) ends the script
LoadTracker ==
    /\ wpc = "boot"
    /\ CASE boot.found = "valid" ->
              /\ replied_tracker' = tracker_file
              /\ wpc' = "loop"
              /\ UNCHANGED <<tracker_file, boot>>
         [] boot.found \in {"missing", "invalidJSON"} ->
              /\ replied_tracker' = NoTracker
              /\ tracker_file' = NoTracker
              /\ boot' = [boot EXCEPT !.rewritten = TRUE]
              /\ wpc' = "loop"
         [] OTHER ->
              /\ wpc' = "crashed"
              /\ UNCHANGED <<replied_tracker, tracker_file, boot>>
    /\ UNCHANGED <<queue, thread, idx, last_seen, username, attempt, success, sends,
                   delays, senderCalls, seenCalls, evaluated, target, prev, rerun,
                   audit, auditTracked>>

\* the thread contents are not fixed
InboxOff == [t \in Threads |-> <<>>]

\* the process is stopped at any point (SIGTERM from stopBot, a crash of the host)
\* and started again later: the locals are gone and the tracker is what lines 17-19
\* load from the file
Restart ==
    /\ wpc \in {"loop", "for", "scan", "send", "replied", "cooldown"}
    /\ wpc' = "loop"
    /\ queue' = <<>>
    /\ replied_tracker' = tracker_file
    /\ Return
    /\ UNCHANGED <<tracker_file, prev, audit, auditTracked>>

\* KeyboardInterrupt (lines 89-91) or a termination signal: the script ends
Interrupt ==
    /\ wpc \in {"loop", "for", "scan", "send", "replied", "cooldown"}
    /\ wpc' = "stopped"
    /\ queue' = <<>>
    /\ Return
    /\ UNCHANGED <<replied_tracker, tracker_file, prev, audit, auditTracked>>

WatcherStart(a) ==
    /\ boot = NoBoot
    /\ trigger_messages = {}
    /\ inbox = InboxOff /\ repliedOk = {}
    /\ wpc = "loop"
    /\ queue = <<>>
    /\ thread = NoThread
    /\ idx = 0 /\ last_seen = 0 /\ username = <<>> /\ attempt = 0 /\ success = FALSE
    /\ replied_tracker = tracker_file
    /\ sends = <<>> /\ delays = <<>> /\ senderCalls = 0 /\ seenCalls = 0
    /\ evaluated = {} /\ target = 0 /\ rerun = 0
    /\ audit = a
    /\ auditTracked = FALSE
\* ------------------------------------------------------------------ instagramLogin
\* optional fields hold "undefined" when the caller leaves them out
Truthy(v) == v \notin {"undefined", ""}
LoginParams ==
    [username : Usernames, password : {"pw"},
     reuseSession : {"undefined", "true", "false"},
     twoFactorCode : {"undefined", "", "123456"},
     challengeMethod : {"undefined", "sms", "email"},
     challengeCode : {"undefined", "654321"}]
NoParams ==
    [username |-> "none", password |-> "", reuseSession |-> "undefined",
     twoFactorCode |-> "undefined", challengeMethod |-> "undefined",
     challengeCode |-> "undefined"]
NoResult == [pending |-> TRUE]

\* `${username}_session.json`
sessionFile(u) == <<u, "_session.json">>

\* (faulty variant) a call that brings a two-factor code is not asked about the session
AsksSessionChoice_UnlessCode(exists, p) ==
    exists /\ p.reuseSession = "undefined" /\ ~Truthy(p.twoFactorCode)

\* fs.access resolved and reuseSession === undefined
AsksSessionChoice(exists, p) == exists /\ p.reuseSession = "undefined"

\* the argument list built for spawn
Args(p) ==
    <<"instagram_login.py", p.username, p.password>>
    \o (IF p.reuseSession # "undefined"
          THEN <<IF p.reuseSession = "true" THEN "reuse" ELSE "fresh">> ELSE <<>>)
    \o (IF Truthy(p.twoFactorCode) THEN <<"2fa", p.twoFactorCode>> ELSE <<>>)
    \o (IF Truthy(p.challengeMethod) /\ Truthy(p.challengeCode)
          THEN <<"challenge", p.challengeMethod, p.challengeCode>> ELSE <<>>)

\* the lines written to the process's stdin
StdinWrites(p) ==
    (IF Truthy(p.twoFactorCode) THEN <<p.twoFactorCode>> ELSE <<>>)
    \o (IF Truthy(p.challengeMethod)
          THEN <<IF p.challengeMethod = "sms" THEN "1" ELSE "2">> ELSE <<>>)
    \o (IF Truthy(p.challengeCode) THEN <<p.challengeCode>> ELSE <<>>)

\* what the login process may print: stdout in chunks that are blank, a log line or
\* one JSON document ({"success": true, ...}, {"success": false, ...} or an object
\* with a message only); stderr as text
OutChunks == {"blank", "log", "json:success", "json:failure", "json:message"}
ErrChunks ==
    { <<"2", "F", "A">>,
      <<"T", "w", "o", "-", "F", "a", "c", "t", "o", "r">>,
      <<"C", "h", "a", "l", "l", "e", "n", "g", "e">>,
      <<"b", "a", "d">> }

\* JSON.parse(stdout.trim()): the text parses when it is one JSON document, blanks
\* aside
JSONparse(out) ==
    LET body == SelectSeq(out, LAMBDA c : c # "blank")
    IN  IF Len(body) = 1 /\ body[1] \in {"json:success", "json:failure", "json:message"}
        THEN [ok |-> TRUE,
              value |-> CASE body[1] = "json:success" ->
                               [success |-> TRUE, message |-> "from script"]
                          [] body[1] = "json:failure" ->
                               [success |-> FALSE, message |-> "from script"]
                          [] OTHER -> [message |-> "from script"]]
        ELSE [ok |-> FALSE, value |-> NoResult]

\* the text that the chunks added to a string make up
RECURSIVE Join(_)
Join(chunks) == IF chunks = <<>> THEN <<>> ELSE Head(chunks) \o Join(Tail(chunks))

\* the close handler on exit code 0: the parsed document, or the plain success
ExitZeroResult(out) ==
    IF JSONparse(out).ok THEN JSONparse(out).value
    ELSE [success |-> TRUE, message |-> "Login successful!"]

\* (faulty variant) the message is stderr as it is, without `|| "Login failed"`
ErrorResult_NoFallback(errorOutput, err) ==
    IF \/ Contains(errorOutput, <<"t", "w", "o", "-", "f", "a", "c", "t", "o", "r">>)
       \/ Contains(errorOutput, <<"2", "f", "a">>)
    THEN [success |-> FALSE, requiresTwoFactor |-> TRUE,
          message |-> "Two-factor authentication required"]
    ELSE IF Contains(errorOutput, <<"c", "h", "a", "l", "l", "e", "n", "g", "e">>)
    THEN [success |-> FALSE, requiresChallenge |-> TRUE,
          challengeMethods |-> <<"sms", "email">>,
          message |-> "Security challenge required"]
    ELSE [success |-> FALSE,
          message |-> IF err # <<>> THEN "stderr" ELSE ""]

\* the close handler's reading of the error output on a nonzero exit code
ErrorResult(errorOutput, err) ==
    IF \/ Contains(errorOutput, <<"t", "w", "o", "-", "f", "a", "c", "t", "o", "r">>)
       \/ Contains(errorOutput, <<"2", "f", "a">>)
    THEN [success |-> FALSE, requiresTwoFactor |-> TRUE,
          message |-> "Two-factor authentication required"]
    ELSE IF Contains(errorOutput, <<"c", "h", "a", "l", "l", "e", "n", "g", "e">>)
    THEN [success |-> FALSE, requiresChallenge |-> TRUE,
          challengeMethods |-> <<"sms", "email">>,
          message |-> "Security challenge required"]
    ELSE [success |-> FALSE,
          message |-> IF err # <<>> THEN "stderr" ELSE "Login failed"]

\* (faulty variant) the error output is searched as it is, not in lower case
CloseResult_CaseSensitive(code, out, err) ==
    IF code = 0 THEN ExitZeroResult(out) ELSE ErrorResult(err, err)

\* (faulty variant) the exit code is not looked at
CloseResult_IgnoresCode(code, out, err) == ExitZeroResult(out)

\* the value the close handler resolves with
CloseResult(code, out, err) ==
    IF code = 0 THEN ExitZeroResult(out) ELSE ErrorResult(Lower(err), err)

\* instagramLogin is called: it runs up to `await fs.access(sessionFile)`
LoginCall(p) ==
    /\ lpc \in {"idle", "done"}
    /\ lpc' = "access"
    /\ params' = p
    /\ args' = <<>> /\ stdin' = <<>> /\ stdout' = <<>> /\ stderr' = <<>>
    /\ result' = NoResult
    /\ spawns' = 0
    /\ ended' = "none"
    /\ UNCHANGED sessionFiles

\* fs.access settles: the call returns sessionExists, or spawns the login process
\* and writes its stdin
LoginAccess ==
    /\ lpc = "access"
    /\ IF AsksSessionChoice(params.username \in sessionFiles, params)
       THEN /\ result' = [success |-> FALSE, sessionExists |-> TRUE,
                          sessionFile |-> sessionFile(params.username)]
            /\ lpc' = "done"
            /\ UNCHANGED <<args, stdin, spawns>>
       ELSE /\ args' = Args(params)
            /\ spawns' = spawns + 1
            /\ stdin' = StdinWrites(params)
            /\ lpc' = "running"
            /\ UNCHANGED result
    /\ UNCHANGED <<params, stdout, stderr, sessionFiles, ended>>

\* pythonProcess.stdout.on("data")
LoginStdout(data) ==
    /\ lpc = "running"
    /\ Len(stdout) + Len(stderr) < MaxOutput
    /\ stdout' = Append(stdout, data)
    /\ UNCHANGED <<lpc, params, args, stdin, stderr, result, spawns, sessionFiles, ended>>

\* pythonProcess.stderr.on("data")
LoginStderr(data) ==
    /\ lpc = "running"
    /\ Len(stdout) + Len(stderr) < MaxOutput
    /\ stderr' = Append(stderr, data)
    /\ UNCHANGED <<lpc, params, args, stdin, stdout, result, spawns, sessionFiles, ended>>

\* pythonProcess.on("close"); the promise is settled and the closure's stdout and
\* stderr are out of reach from here on
LoginClose(code) ==
    /\ lpc = "running"
    /\ result' = CloseResult(code, stdout, Join(stderr))
    /\ ended' = (IF code = 0 THEN "code0" ELSE "code1")
    /\ lpc' = "done"
    /\ stdout' = <<>> /\ stderr' = <<>>
    /\ UNCHANGED <<params, args, stdin, spawns, sessionFiles>>

\* pythonProcess.on("error"): the promise is rejected
LoginError ==
    /\ lpc = "running"
    /\ result' = [rejected |-> "Failed to start Python process"]
    /\ ended' = "error"
    /\ lpc' = "done"
    /\ stdout' = <<>> /\ stderr' = <<>>
    /\ UNCHANGED <<params, args, stdin, spawns, sessionFiles>>

\* POST /api/login: the body of the response for a call that settled with r (the
\* rejection's message is never empty, so `|| "Internal server error"` is not used)
LoginRoute(r) ==
    IF "rejected" \in DOMAIN r THEN [success |-> FALSE, message |-> r.rejected] ELSE r

\* what a request body may hold: the fields of LoginParams, with username and
\* password also left out or empty (the first request of a login and the answer to
\* the session prompt; the other fields do not reach the test of the credentials)
Bodies ==
    [username : Usernames \cup {"undefined", ""}, password : {"pw", "undefined", ""},
     reuseSession : {"undefined", "true"},
     twoFactorCode : {"undefined"},
     challengeMethod : {"undefined"},
     challengeCode : {"undefined"}]
NoRes == [status |-> 0, body |-> NoResult]

\* (faulty variant) only the username is required
MissingCredentials_UsernameOnly(b) == ~Truthy(b.username)

\* !username || !password
MissingCredentials(b) == ~Truthy(b.username) \/ ~Truthy(b.password)

\* a request arrives: 400 without credentials, otherwise instagramLogin is called
\* and awaited
PostLogin(b) ==
    /\ lpc \in {"idle", "done"}
    /\ req' = b
    /\ IF MissingCredentials(b)
       THEN /\ res' = [status |-> 400,
                       body |-> [success |-> FALSE,
                                 message |-> "Username and password are required"]]
            /\ UNCHANGED <<lpc, params, args, stdin, stdout, stderr, result, spawns,
                           ended, sessionFiles>>
       ELSE /\ LoginCall(b)
            /\ res' = NoRes

\* the awaited call settles within this step: res.json(result), or the catch's 500
Respond ==
    /\ req' = req
    /\ res' = IF lpc' # "done" THEN res
              ELSE [status |-> IF "rejected" \in DOMAIN result' THEN 500 ELSE 200,
                    body |-> LoginRoute(result')]

LoginStart ==
    /\ req = NoParams /\ res = NoRes
    /\ lpc = "idle"
    /\ params = NoParams
    /\ args = <<>> /\ stdin = <<>> /\ stdout = <<>> /\ stderr = <<>>
    /\ result = NoResult
    /\ spawns = 0
    /\ ended = "none"
    /\ writes = 0

\* ------------------------------------------------------------------ the login process
\* server/instagram_login.py: it asks the remote service, persists the session when
\* the service accepts the credentials and on no other path, and reports the answer
\* by its exit code and its output
RemoteAnswers == {"accepted", "twoFactor", "challenge", "rejected"}
TwoFactorChunks ==
    { <<"2", "F", "A">>, <<"T", "w", "o", "-", "F", "a", "c", "t", "o", "r">> }
ChallengeChunks == { <<"C", "h", "a", "l", "l", "e", "n", "g", "e">> }

\* a new call gets a new process
ScriptReset == remote' = "none" /\ writes' = 0

\* the remote service answers; an accepted login writes `${username}_session.json`
ScriptLogin(answer) ==
    /\ lpc = "running" /\ remote = "none"
    /\ remote' = answer
    /\ IF answer = "accepted"
       THEN sessionFiles' = sessionFiles \cup {params.username} /\ writes' = writes + 1
       ELSE UNCHANGED <<sessionFiles, writes>>
    /\ UNCHANGED <<lpc, params, args, stdin, stdout, stderr, result, spawns, ended>>

\* what the process prints: log lines at any time, a result document or a marker on
\* stderr once the remote service has answered, fitting the answer
ScriptPrintsOut(d) ==
    \/ d \in {"blank", "log"}
    \/ d = "json:success" /\ remote = "accepted"
    \/ d = "json:failure" /\ remote = "rejected"
ScriptPrintsErr(d) ==
    \/ d \notin (TwoFactorChunks \cup ChallengeChunks)
    \/ d \in TwoFactorChunks /\ remote = "twoFactor"
    \/ d \in ChallengeChunks /\ remote = "challenge"

\* the exit code: 0 for an accepted login only; a two-factor or challenge answer has
\* been reported on stderr by then
ScriptExits(code) ==
    /\ (code = 0) <=> (remote = "accepted")
    /\ remote = "twoFactor" => \E i \in 1..Len(stderr) : stderr[i] \in TwoFactorChunks
    /\ remote = "challenge" => \E i \in 1..Len(stderr) : stderr[i] \in ChallengeChunks

\* the process could not be started at all
ScriptNotStarted == remote = "none"

\* ------------------------------------------------------------------ specifications
InitBot ==
    /\ BotStart /\ sessionFiles \in SUBSET BotAccounts
    /\ tracker_file = NoTracker /\ WatcherStart(NoAudit) /\ prev = PrevOff
    /\ LoginStart /\ remote = "off"
BotOnly == UNCHANGED <<watcherVars, loginVars, status, captured>>

NextBot ==
    \/ \E k \in Calls : StartCall(k) /\ BotOnly
    \/ \E k \in Calls, ok \in BOOLEAN, o \in {"ok", "errorEvent", "throw"} :
          StartResume(k, ok, o) /\ BotOnly
    \/ \E k \in Calls : StopCall(k) /\ BotOnly
    \/ \E k \in Calls : StopResume(k) /\ BotOnly
    \/ \E c \in Children : ChildEnds(c) /\ BotOnly
    \/ \E c \in Children, how \in {"code0", "code1", "SIGTERM", "SIGKILL"} :
          OnExit(c, how) /\ BotOnly
    \/ \E u \in BotAccounts : SessionFileChange(u) /\ BotOnly

\* The supervisor's lifecycle. The children's output events are left to
\* SpecBotOutput: they append to `logs` and touch nothing else.
SpecBot == InitBot /\ [][NextBot]_vars

NextBotOutput ==
    \/ NextBot
    \/ \E c \in Children, d \in Chunks : OnStdout(c, d) /\ BotOnly
    \/ \E c \in Children, d \in Chunks : OnStderr(c, d) /\ BotOnly

SpecBotOutput == InitBot /\ [][NextBotOutput]_vars

\* the supervisor with one getStatus call at any moment, whose caller may write to the
\* array it was given (the buffer grows by the entries of startBot, stopBot and the
\* exit and error handlers)
StatusOnly == UNCHANGED <<watcherVars, loginVars, captured>>

\* the startBot/stopBot calls of a run with a getStatus call
StatusCalls == 1..(MaxCalls - 1)

NextBotStatus ==
    \/ \E k \in StatusCalls : StartCall(k) /\ StatusFollows /\ StatusOnly
    \/ \E k \in StatusCalls, ok \in BOOLEAN, o \in {"ok", "errorEvent", "throw"} :
          StartResume(k, ok, o) /\ StatusFollows /\ StatusOnly
    \/ \E k \in StatusCalls : StopCall(k) /\ StatusFollows /\ StatusOnly
    \/ \E k \in StatusCalls : StopResume(k) /\ StatusFollows /\ StatusOnly
    \/ \E c \in Children : ChildEnds(c) /\ StatusFollows /\ StatusOnly
    \/ \E c \in Children, how \in {"code0", "code1", "SIGTERM", "SIGKILL"} :
          OnExit(c, how) /\ StatusFollows /\ StatusOnly
    \/ GetStatusCall /\ StatusOnly
    \/ CallerPushes /\ StatusOnly

SpecBotStatus == InitBot /\ [][NextBotStatus]_vars

\* addLog call after addLog call, on a buffer that is within two entries of maxLogs
InitLog ==
    /\ botProcess = 0
    /\ \E n \in (maxLogs - 2)..maxLogs : logs = BufferOf(n)
    /\ captured = logs
    /\ children = [c \in Children |-> NoChild]
    /\ calls = [k \in Calls |-> NoCall]
    /\ nOutput = 0 /\ status = NoStatus /\ sessionFiles = {}
    /\ tracker_file = NoTracker /\ WatcherStart(NoAudit) /\ prev = PrevOff
    /\ LoginStart /\ remote = "off"

NextLog == \E m \in LogMessages : AddLogCall(m) /\ UNCHANGED <<watcherVars, loginVars>>

SpecLog == InitLog /\ [][NextLog]_vars

InitWatcher ==
    /\ BotStart /\ sessionFiles = {}
    /\ tracker_file \in TrackerFiles /\ WatcherStart(NoAudit) /\ prev = PrevOff
    /\ LoginStart /\ remote = "off"
WatcherOnly == UNCHANGED <<botVars, loginVars, boot, trigger_messages, inbox, repliedOk>>

NextWatcher ==
    \/ \E ok \in BOOLEAN, lst \in ThreadLists : FetchThreads(ok, lst) /\ WatcherOnly
    \/ \E msgs \in MessageLists : NextThread(msgs) /\ WatcherOnly
    \/ EndCycle /\ WatcherOnly
    \/ \E lookupOk \in BOOLEAN : ScanStep(lookupOk) /\ WatcherOnly
    \/ \E o \in {"ok", "UnknownError", "OtherError"} : SendAttempt(o) /\ WatcherOnly
    \/ SendExhausted /\ WatcherOnly
    \/ \E seenOk \in BOOLEAN : AfterReply(seenOk) /\ WatcherOnly
    \/ Cooldown /\ WatcherOnly

\* the watcher from its start, cycle after cycle
SpecWatcher == InitWatcher /\ [][NextWatcher]_vars

\* the same watcher with one message, any message, under observation
InitWatcherAudit ==
    /\ BotStart /\ sessionFiles = {}
    /\ tracker_file \in TrackerFiles
    /\ \E a \in [t : Threads, m : Msgs] : WatcherStart(a)
    /\ prev = PrevOff
    /\ LoginStart /\ remote = "off"

SpecWatcherAudit == InitWatcherAudit /\ [][NextWatcher]_vars

\* the watcher started without a tracker file, remembering each tracker write until
\* the next call
InitWatcherRerun ==
    /\ BotStart /\ sessionFiles = {}
    /\ tracker_file = NoTracker /\ WatcherStart(NoAudit) /\ prev = NoPrev
    /\ LoginStart /\ remote = "off"

SpecWatcherRerun == InitWatcherRerun /\ [][NextWatcher]_vars

\* the watcher from the load of the tracker file, whatever is found at TRACKER_FILE
InitWatcherBoot ==
    /\ BotStart /\ sessionFiles = {}
    /\ \E f \in TrackerFileStates : boot = [found |-> f, rewritten |-> FALSE]
    /\ tracker_file \in (IF boot.found = "valid" THEN TrackerFiles ELSE {NoTracker})
    /\ wpc = "boot"
    /\ queue = <<>> /\ thread = NoThread
    /\ idx = 0 /\ last_seen = 0 /\ username = <<>> /\ attempt = 0 /\ success = FALSE
    /\ replied_tracker = NoTracker
    /\ sends = <<>> /\ delays = <<>> /\ senderCalls = 0 /\ seenCalls = 0
    /\ evaluated = {} /\ target = 0 /\ rerun = 0
    /\ audit = NoAudit /\ auditTracked = FALSE /\ prev = PrevOff
    /\ trigger_messages = {} /\ inbox = InboxOff /\ repliedOk = {}
    /\ LoginStart /\ remote = "off"

NextWatcherBoot ==
    \/ LoadTracker /\ UNCHANGED <<botVars, loginVars, trigger_messages, inbox, repliedOk>>
    \/ NextWatcher

SpecWatcherBoot == InitWatcherBoot /\ [][NextWatcherBoot]_vars

\* the watcher started without a tracker file on an inbox whose threads keep their
\* messages, stopped at any point and started again any number of times
InitWatcherRestart ==
    /\ BotStart /\ sessionFiles = {}
    /\ boot = NoBoot /\ trigger_messages = {}
    /\ inbox \in [Threads -> MessageLists] /\ repliedOk = {}
    /\ tracker_file = NoTracker /\ replied_tracker = NoTracker
    /\ wpc = "loop"
    /\ queue = <<>> /\ thread = NoThread
    /\ idx = 0 /\ last_seen = 0 /\ username = <<>> /\ attempt = 0 /\ success = FALSE
    /\ sends = <<>> /\ delays = <<>> /\ senderCalls = 0 /\ seenCalls = 0
    /\ evaluated = {} /\ target = 0 /\ rerun = 0
    /\ audit = NoAudit /\ auditTracked = FALSE /\ prev = PrevOff
    /\ LoginStart /\ remote = "off"

RestartOnly == UNCHANGED <<botVars, loginVars, boot, trigger_messages, inbox>>

NextWatcherRestart ==
    \/ \E ok \in BOOLEAN, lst \in ThreadLists : FetchThreads(ok, lst) /\ WatcherOnly
    \/ NextThread(inbox[Head(queue)]) /\ WatcherOnly
    \/ EndCycle /\ WatcherOnly
    \/ \E lookupOk \in BOOLEAN : ScanStep(lookupOk) /\ WatcherOnly
    \/ SendAttempt("ok") /\ repliedOk' = repliedOk \cup {<<thread.id, target>>}
          /\ RestartOnly
    \/ \E o \in {"UnknownError", "OtherError"} : SendAttempt(o) /\ WatcherOnly
    \/ SendExhausted /\ WatcherOnly
    \/ \E seenOk \in BOOLEAN : AfterReply(seenOk) /\ WatcherOnly
    \/ Cooldown /\ WatcherOnly
    \/ Restart /\ WatcherOnly

SpecWatcherRestart == InitWatcherRestart /\ [][NextWatcherRestart]_vars

\* the watcher under weak fairness: a step that can be taken is taken unless the
\* script is cancelled
ShortLists == {l \in MessageLists : Len(l) < MaxLen}

WatcherCycle ==
    \/ \E ok \in BOOLEAN, lst \in ThreadLists : FetchThreads(ok, lst) /\ WatcherOnly
    \/ \E msgs \in ShortLists : NextThread(msgs) /\ WatcherOnly
    \/ EndCycle /\ WatcherOnly
    \/ \E lookupOk \in BOOLEAN : ScanStep(lookupOk) /\ WatcherOnly
    \/ \E o \in {"ok", "UnknownError", "OtherError"} : SendAttempt(o) /\ WatcherOnly
    \/ SendExhausted /\ WatcherOnly
    \/ \E seenOk \in BOOLEAN : AfterReply(seenOk) /\ WatcherOnly
    \/ Cooldown /\ WatcherOnly

NextWatcherLive ==
    \/ WatcherCycle
    \/ Interrupt /\ WatcherOnly

SpecWatcherLive == InitWatcher /\ [][NextWatcherLive]_vars /\ WF_vars(WatcherCycle)

InitLogin ==
    /\ BotStart /\ sessionFiles \in SUBSET Usernames
    /\ tracker_file = NoTracker /\ WatcherStart(NoAudit) /\ prev = PrevOff
    /\ LoginStart /\ remote = "off"
OthersOnly == UNCHANGED <<botProcess, logs, children, calls, nOutput, status, captured,
                          watcherVars, routeVars>>
LoginOnly == OthersOnly /\ UNCHANGED scriptVars

NextLogin ==
    \/ \E p \in LoginParams : LoginCall(p) /\ LoginOnly
    \/ LoginAccess /\ LoginOnly
    \/ \E d \in OutChunks : LoginStdout(d) /\ LoginOnly
    \/ \E d \in ErrChunks : LoginStderr(d) /\ LoginOnly
    \/ \E code \in {0, 1} : LoginClose(code) /\ LoginOnly
    \/ LoginError /\ LoginOnly
    \/ \E u \in Usernames : SessionFileChange(u) /\ BotOnly

\* login calls one after the other, with session files appearing and disappearing
SpecLogin == InitLogin /\ [][NextLogin]_vars

\* the same calls where fs.access always settles; nothing makes the login process
\* close, and instagramLogin sets no timer of its own
SpecLoginLive == InitLogin /\ [][NextLogin]_vars /\ WF_vars(LoginAccess /\ LoginOnly)

\* the same calls with the login process followed from the remote answer to its exit
InitLoginScript ==
    /\ BotStart /\ sessionFiles \in SUBSET Usernames
    /\ tracker_file = NoTracker /\ WatcherStart(NoAudit) /\ prev = PrevOff
    /\ LoginStart /\ remote = "none"

NextLoginScript ==
    \/ \E p \in LoginParams : LoginCall(p) /\ ScriptReset /\ OthersOnly
    \/ LoginAccess /\ LoginOnly
    \/ \E a \in RemoteAnswers : ScriptLogin(a) /\ OthersOnly
    \/ \E d \in OutChunks : ScriptPrintsOut(d) /\ LoginStdout(d) /\ LoginOnly
    \/ \E d \in ErrChunks : ScriptPrintsErr(d) /\ LoginStderr(d) /\ LoginOnly
    \/ \E code \in {0, 1} : ScriptExits(code) /\ LoginClose(code) /\ LoginOnly
    \/ ScriptNotStarted /\ LoginError /\ LoginOnly
    \/ \E u \in Usernames : SessionFileChange(u) /\ BotOnly

SpecLoginScript == InitLoginScript /\ [][NextLoginScript]_vars

\* the requests to POST /api/login one after the other, each followed to its response
RouteOnly == UNCHANGED <<botProcess, logs, children, calls, nOutput, status, captured,
                         watcherVars, scriptVars>>

NextLoginRoute ==
    \/ \E b \in Bodies : PostLogin(b) /\ RouteOnly
    \/ LoginAccess /\ Respond /\ RouteOnly
    \/ \E d \in OutChunks : LoginStdout(d) /\ LoginOnly
    \/ \E d \in ErrChunks : LoginStderr(d) /\ LoginOnly
    \/ \E code \in {0, 1} : LoginClose(code) /\ Respond /\ RouteOnly
    \/ LoginError /\ Respond /\ RouteOnly
    \/ \E u \in Usernames : SessionFileChange(u) /\ BotOnly

SpecLoginRoute == InitLogin /\ [][NextLoginRoute]_vars

\* ------------------------------------------------------------------ claims: BotManager
NoStopYet == \A j \in Calls : calls[j].op # "stop"
NoOverlapYet == \A j \in Calls : calls[j].conc = {}
Awaiting == {j \in Calls : calls[j].op = "start" /\ calls[j].pc = "await"}
StartCalls == {k \in Calls : calls[k].op = "start"}

\* C1: in every reachable state at most one child spawned by the BotManager is alive
C1_AtMostOneLiveChild == Cardinality(Live(children)) <= 1

\* C2: of two overlapping startBot calls (the second invoked while the first is
\* suspended at its await, no process spawned beforehand, a session file found by
\* both and the spawn itself not failing), exactly one spawns and returns success;
\* the other returns "Bot is already running" and spawns nothing
C2_OverlapOneWinner ==
    \A a, b \in StartCalls :
        ( /\ a \in calls[b].conc
          /\ calls[a].pc = "done" /\ calls[b].pc = "done"
          /\ {calls[a].result, calls[b].result} \subseteq {"Started", "AlreadyRunning"}
          /\ \A c \in Children :
                c \notin {calls[a].spawned, calls[b].spawned} => children[c].st = "none" )
        => \E w, l \in {a, b} :
              /\ w # l
              /\ calls[w].result = "Started" /\ calls[w].spawned # 0
              /\ calls[l].result = "AlreadyRunning" /\ calls[l].spawned = 0

\* C3: a startBot call invoked while a child of an earlier successful startBot is
\* alive, no stopBot having been called (and no startBot calls having overlapped),
\* returns "Bot is already running", spawns nothing and leaves exactly one live child
C3_SecondStartRejected ==
    [][\A k \in Calls :
          ( /\ calls[k].op = "none" /\ calls'[k].op = "start"
            /\ Live(children) # {}
            /\ NoStopYet /\ NoOverlapYet /\ Awaiting = {} )
          => ( /\ calls'[k].pc = "done"
               /\ calls'[k].result = "AlreadyRunning"
               /\ calls'[k].spawned = 0
               /\ children' = children /\ botProcess' = botProcess
               /\ Cardinality(Live(children')) = 1 )]_vars

C3_Witness ==
    \E j, k \in StartCalls :
        /\ j < k
        /\ calls[j].result = "Started" /\ children[calls[j].spawned].st = "alive"
        /\ calls[k].result = "AlreadyRunning"
        /\ NoStopYet /\ NoOverlapYet
        /\ Cardinality(Live(children)) = 1

\* C14: when a stopBot call returns success, the child it sent SIGTERM to is no
\* longer alive, or at least has been sent SIGKILL at the end of the grace period
C14_StoppedChildNotAlive ==
    \A k \in Calls :
        (calls[k].op = "stop" /\ calls[k].result = "Stopped") =>
            \/ children[calls[k].target].st # "alive"
            \/ children[calls[k].target].kill9

\* C15: a stopBot call returns 'Bot is not running' exactly when no child is alive
\* at the time of the call, and then sends no signal and appends no log entry
C15_NotRunningIffNoLiveChild ==
    [][\A k \in Calls :
          (calls[k].op = "none" /\ calls'[k].op = "stop") =>
              /\ (calls'[k].result = "NotRunning") <=> (Live(children) = {})
              /\ calls'[k].result = "NotRunning" =>
                    (children' = children /\ logs' = logs)]_vars

\* C16: the exit event of a child, whatever the cause, and a spawn error clear the
\* handle and append a log entry; a startBot call made when every child spawned so
\* far has exited is not rejected as already running, and with a session file found
\* and spawn not throwing it spawns a new child
ExitLogs == {"Bot stopped by user", "Bot exited with code", "Bot stopped normally",
             "Bot process error"}
AllExited ==
    /\ \E c \in Children : children[c].st \in {"reaped", "failed"}
    /\ \A c \in Children : children[c].st \in {"none", "reaped", "failed"}
C16_ExitClearsHandle ==
    [][ /\ \A c \in Children :
              ( \/ children[c].st = "dead" /\ children'[c].st = "reaped"
                \/ children[c].st = "none" /\ children'[c].st = "failed" ) =>
                  /\ botProcess' = 0
                  /\ Len(logs') > Len(logs)
                  /\ logs'[Len(logs')] \in ExitLogs
        /\ \A k \in Calls :
              (calls[k].op = "none" /\ calls'[k].op = "start" /\ AllExited) =>
                  (calls'[k].pc = "await" /\ calls'[k].result = "none")
        /\ \A k \in Calls :
              ( /\ calls[k].pc = "await" /\ calls'[k].pc = "done"
                /\ calls'[k].result \notin {"NoSession", "StartFailed"} ) =>
                  /\ calls'[k].spawned # 0
                  /\ children[calls'[k].spawned].st = "none"
                  /\ children'[calls'[k].spawned].st \in {"alive", "failed"} ]_vars

C16_Witness ==
    \E k \in Calls, c \in Children :
        /\ children[c].st = "reaped" /\ children[c].term
        /\ calls[k].op = "start" /\ calls[k].result = "Started"
        /\ calls[k].spawned > c
        /\ Live(children) = {calls[k].spawned}
        /\ botProcess = calls[k].spawned

\* C17 as stated: a startBot call made while no session file exists returns the
\* no-session failure, spawns nothing and leaves the handle and the log buffer alone
C17_NoSessionAlways ==
    [][\A k \in Calls :
          /\ (calls[k].op = "none" /\ calls'[k].op = "start" /\ sessionFiles = {}) =>
                calls'[k].result \in {"none", "NoSession"}
          /\ (calls[k].pc = "await" /\ calls'[k].pc = "done" /\ sessionFiles = {}) =>
                /\ calls'[k].result = "NoSession" /\ calls'[k].spawned = 0
                /\ UNCHANGED <<botProcess, logs, children>> ]_vars

\* C17 amended: a startBot call that is not rejected as already running and finds no
\* session file when the directory is read returns the no-session failure, spawns
\* nothing and leaves the handle and the log buffer alone
C17_NoSessionWhenNotRunning ==
    [][\A k \in Calls :
          (calls[k].pc = "await" /\ calls'[k].pc = "done" /\ sessionFiles = {}) =>
              /\ calls'[k].result = "NoSession" /\ calls'[k].spawned = 0
              /\ UNCHANGED <<botProcess, logs, children>> ]_vars

C17_Witness ==
    \E k \in Calls :
        /\ calls[k].op = "start" /\ calls[k].result = "NoSession"
        /\ sessionFiles = {}
        /\ logs = <<>> /\ botProcess = 0 /\ Live(children) = {}

\* C18: a getStatus call changes nothing in the supervisor and returns the buffer's
\* entries and the handle test; the returned logs stay as they were returned whatever
\* is appended to the buffer afterwards, and a write to the returned logs by the
\* caller does not change the buffer
C18_StatusIsACopy ==
    [][ /\ (~status.taken /\ status'.taken) =>
              /\ UNCHANGED <<botProcess, logs, children, calls, sessionFiles, nOutput>>
              /\ status'.logs = logs
              /\ status'.isRunning = (botProcess # 0 /\ ~children[botProcess].killed)
        /\ ~status'.mutated => status'.logs = status'.asReturned
        /\ (~status.mutated /\ status'.mutated) => logs' = logs ]_vars

C18_Witness ==
    /\ status.taken /\ status.mutated
    /\ status.isRunning
    /\ Len(logs) > Len(status.asReturned)
    /\ Len(status.asReturned) > 0

\* C19: after any sequence of appends the buffer holds at most maxLogs entries, and
\* they are the most recently captured ones, in capture order
C19_MostRecentKept ==
    /\ Len(logs) <= maxLogs
    /\ Len(logs) = (IF Len(captured) > maxLogs THEN maxLogs ELSE Len(captured))
    /\ \A i \in 1..Len(logs) : logs[i] = captured[Len(captured) - Len(logs) + i]

C19_Witness ==
    /\ Len(captured) > maxLogs + 1
    /\ Len(logs) = maxLogs
    /\ logs[maxLogs] # captured[maxLogs]

\* ------------------------------------------------------------------ claims: watcher
\* what the messages of the inbox are: those whose text holds the trigger phrase
\* (in mixed case) and those that carry a media share
HasTriggerWord(m) == m % 4 = 2
HasMediaShare(m) == m % 4 = 0
Qualifies(m) == HasTriggerWord(m) \/ HasMediaShare(m)

\* some message of msgs qualifies and comes before the tracked message `last`
TriggerBeforeTracked(msgs, last) ==
    \E k \in 1..Len(msgs) : Qualifies(msgs[k]) /\ \A j \in 1..k : msgs[j] # last

\* this step invokes the retrying sender / leaves handle_new_dm
SenderInvoked == wpc = "scan" /\ wpc' = "send"
HandleEnds == wpc \in {"scan", "send", "replied"} /\ wpc' \in {"for", "cooldown"}

\* C4: once the tracker entry has been written for a message M of a thread, no later
\* cycle passes M to a reply attempt in that thread (M is any message: the observed one)
C4_NoSecondReply ==
    [][(SenderInvoked /\ audit = [t |-> thread.id, m |-> target']) => ~auditTracked]_vars

\* C5: when a cycle has set a thread's tracker entry to M, handling the thread again
\* with the same messages in the same order makes no reply attempt and leaves the
\* entry (in memory and on disk) equal to M
C5_RerunIdempotent ==
    rerun # 0 =>
        /\ wpc = "scan"
        /\ senderCalls = 0 /\ seenCalls = 0
        /\ replied_tracker[thread.id] = rerun
        /\ tracker_file[thread.id] = rerun

C5_Witness ==
    /\ rerun # 0
    /\ idx > 1 /\ idx <= Len(thread.messages)
    /\ thread.messages[idx] = rerun

\* C6: one handle_new_dm call invokes the retrying sender at most once, and exactly
\* once when a qualifying message is scanned before the tracked message, however
\* many qualifying messages the thread holds
C6_OneSenderCall ==
    [][ /\ senderCalls' <= 1
        /\ HandleEnds =>
              (senderCalls = 1 <=> TriggerBeforeTracked(thread.messages, last_seen)) ]_vars

C6_Witness ==
    /\ wpc = "replied"
    /\ senderCalls = 1
    /\ \E j, k \in 1..Len(thread.messages) :
          /\ j < k
          /\ HasTriggerWord(thread.messages[j]) /\ HasMediaShare(thread.messages[k])
          /\ \A i \in 1..k : thread.messages[i] # last_seen

\* C7: for a thread whose messages hold the tracked message M, handle_new_dm passes
\* only the first qualifying message before M to the sender and sets the tracker
\* entry to it (the entry stays M when there is none), and evaluates neither M nor
\* any message listed after M
C7_FirstBeforeTracked ==
    [][(HandleEnds /\ \E p \in 1..Len(thread.messages) : thread.messages[p] = last_seen) =>
          LET msgs == thread.messages
              p == CHOOSE q \in 1..Len(msgs) : msgs[q] = last_seen
              F == {k \in 1..(p - 1) : Qualifies(msgs[k])}
          IN  /\ F # {} =>
                   LET f == CHOOSE k \in F : \A j \in F : k <= j
                   IN  /\ senderCalls = 1 /\ target = msgs[f]
                       /\ replied_tracker'[thread.id] = msgs[f]
                       /\ tracker_file'[thread.id] = msgs[f]
              /\ F = {} =>
                   /\ senderCalls = 0 /\ target = 0
                   /\ replied_tracker'[thread.id] = last_seen
              /\ \A j \in p..Len(msgs) : msgs[j] \notin evaluated ]_vars

\* C8: while handle_new_dm handles a thread in which no scanned message qualifies,
\* there is no reply attempt and no mark-seen call, and the tracker stays as it is,
\* in memory and on disk
C8_NoMatchNoEffect ==
    [][ /\ (thread' # NoThread /\ ~TriggerBeforeTracked(thread'.messages, last_seen')) =>
              (wpc' = "scan" /\ senderCalls' = 0 /\ seenCalls' = 0 /\ target' = 0)
        /\ (thread # NoThread /\ ~TriggerBeforeTracked(thread.messages, last_seen)) =>
              (replied_tracker' = replied_tracker /\ tracker_file' = tracker_file) ]_vars

C8_Witness ==
    /\ wpc = "scan" /\ idx > Len(thread.messages)
    /\ Len(thread.messages) >= 2
    /\ last_seen = 0
    /\ \A k \in 1..Len(thread.messages) : ~Qualifies(thread.messages[k])
    /\ evaluated = {thread.messages[k] : k \in 1..Len(thread.messages)}

\* C9: when every direct_answer of a try_reply_with_backoff call fails with the
\* transient error, the call makes exactly `retries` attempts and returns False,
\* and the sleep after attempt i (from 0) lasts 2^i, so the delays never decrease
C9_BackoffExhausted ==
    (wpc = "replied" /\ \A i \in 1..Len(sends) : sends[i] = "UnknownError") =>
        /\ Len(sends) = retries
        /\ success = FALSE
        /\ Len(delays) = retries
        /\ \A i \in 1..Len(delays) : delays[i] = 2 ^ (i - 1)
        /\ \A i \in 1..(Len(delays) - 1) : delays[i] <= delays[i + 1]

C9_Witness ==
    /\ wpc = "replied" /\ ~success
    /\ sends = <<"UnknownError", "UnknownError", "UnknownError">>
    /\ delays = <<1, 2, 4>>

\* C21: a handle_new_dm call that attempted a reply leaves the thread's tracker
\* entry equal to the matching message's identifier, in memory and on disk, however
\* the send ended
C21_TrackerSetWhateverOutcome ==
    [][(HandleEnds /\ target # 0) =>
          /\ replied_tracker'[thread.id] = target
          /\ tracker_file'[thread.id] = target ]_vars

\* C22: a handle_new_dm call that attempted a reply adds one record, keyed by the
\* matching message's identifier, to the trigger-message history, and no step
\* removes a record
C22_OneRecordPerTrigger ==
    [][ /\ (HandleEnds /\ target # 0) => target \in trigger_messages'
        /\ trigger_messages \subseteq trigger_messages' ]_vars

\* C23: after the sender has returned, handle_new_dm makes one mark-seen call when it
\* returned False and none when it returned True; whether or not the mark-seen call
\* fails, the tracker entry is set and saved and the cycle goes on with the for loop
C23_MarkSeenBestEffort ==
    [][(wpc = "replied" /\ wpc' # "replied") =>
          /\ seenCalls' = (IF success THEN 0 ELSE 1)
          /\ replied_tracker'[thread.id] = target
          /\ tracker_file'[thread.id] = target
          /\ wpc' = "for" ]_vars

C23_Witness ==
    /\ wpc = "for" /\ seenCalls = 1
    /\ \E t \in Threads : replied_tracker[t] # 0 /\ tracker_file[t] = replied_tracker[t]

\* C24: a send attempt that fails with an error other than the transient one ends the
\* sender, which returns False to handle_new_dm
NonRetryableFailure ==
    /\ wpc = "send" /\ attempt < retries
    /\ wpc' # "send" /\ ~success'
C24_NonRetryableReturnsFalse ==
    [][NonRetryableFailure => (wpc' = "replied" /\ UNCHANGED <<thread, target>>)]_vars

\* C25: a cycle ends, by the sleep or by the cooldown, only when the for loop has
\* taken every thread of the fetched list
C25_EveryFetchedThreadTaken ==
    [][(wpc # "loop" /\ wpc' = "loop") => queue = <<>>]_vars

\* C26: the loop is back at the top of a cycle again and again, whatever fails, unless
\* the script is cancelled; it never ends by an exception
C26_LoopNeverEnds ==
    /\ []<>(wpc \in {"loop", "stopped"})
    /\ [](wpc # "crashed")

C26_Witness == wpc = "cooldown" /\ queue # <<>>

\* C27: with the threads' contents the same at every fetch and the script stopped
\* and restarted at any point, no direct_answer call succeeds for a message for which
\* one has succeeded before
C27_NoSecondReplyAfterRestart ==
    [][(wpc = "send" /\ wpc' = "replied" /\ success') =>
          <<thread.id, target>> \notin repliedOk ]_vars

\* C20: the script's start with a missing or unparsable tracker file gives an empty
\* in-memory tracker and an empty tracker file written back, and does not fail; a valid
\* tracker file is loaded as it is and is not rewritten
C20_TrackerLoadHeals ==
    [][(wpc = "boot" /\ wpc' # "boot") =>
          IF boot.found = "valid"
          THEN /\ wpc' = "loop"
               /\ replied_tracker' = tracker_file
               /\ tracker_file' = tracker_file /\ ~boot'.rewritten
          ELSE /\ wpc' = "loop"
               /\ replied_tracker' = NoTracker
               /\ tracker_file' = NoTracker /\ boot'.rewritten ]_vars

\* ------------------------------------------------------------------ claims: instagramLogin
\* C10: when fs.access finds the session file of the call's username and the call
\* has no reuseSession, the call returns sessionExists = true with the file's name
\* and spawns no login process, whatever twoFactorCode, challengeMethod and
\* challengeCode it carries
C10_SessionExistsNoSpawn ==
    [][ ( /\ lpc = "access" /\ lpc' # "access"
          /\ params.username \in sessionFiles
          /\ params.reuseSession = "undefined" ) =>
            /\ lpc' = "done"
            /\ result' = [success |-> FALSE, sessionExists |-> TRUE,
                          sessionFile |-> sessionFile(params.username)]
            /\ spawns' = 0 /\ args' = <<>> /\ stdin' = <<>> ]_vars

C10_Witness ==
    /\ lpc = "done"
    /\ params.username \in sessionFiles
    /\ params.reuseSession = "undefined"
    /\ Truthy(params.twoFactorCode)
    /\ Truthy(params.challengeMethod) /\ Truthy(params.challengeCode)
    /\ result = [success |-> FALSE, sessionExists |-> TRUE,
                 sessionFile |-> sessionFile(params.username)]
    /\ spawns = 0

\* a flag of a result is set
Flag(r, f) == f \in DOMAIN r /\ r[f] = TRUE
Returned == lpc = "done" /\ "rejected" \notin DOMAIN result

ResultKinds(r) ==
    LET flags == {f \in {"sessionExists", "requiresTwoFactor", "requiresChallenge"} :
                    Flag(r, f)}
    IN  flags
        \cup (IF Flag(r, "success") THEN {"success"} ELSE {})
        \cup (IF "success" \in DOMAIN r /\ r.success = FALSE /\ flags = {}
              THEN {"failure"} ELSE {})
C13_ExactlyOneKind == Returned => Cardinality(ResultKinds(result)) = 1

\* C28: a call that carries username, password and twoFactorCode only, as the client
\* sends it from the two-factor step, spawns a login process whose arguments hold
\* "2fa" and the code, whether or not the username's session file exists
C28_TwoFactorCodeAttempted ==
    ( /\ lpc = "done"
      /\ Truthy(params.twoFactorCode)
      /\ params.reuseSession = "undefined"
      /\ params.challengeMethod = "undefined" /\ params.challengeCode = "undefined" ) =>
        /\ spawns = 1
        /\ \E i \in 1..(Len(args) - 1) : args[i] = "2fa" /\ args[i + 1] = params.twoFactorCode

\* the error output names neither two-factor nor challenge
Unrecognized(err) ==
    LET errorOutput == Lower(err)
    IN  /\ ~Contains(errorOutput, <<"t", "w", "o", "-", "f", "a", "c", "t", "o", "r">>)
        /\ ~Contains(errorOutput, <<"2", "f", "a">>)
        /\ ~Contains(errorOutput, <<"c", "h", "a", "l", "l", "e", "n", "g", "e">>)

\* C29: when the login process cannot be started, or exits with a nonzero code and
\* an error output that names neither two-factor nor challenge, the response of the
\* login call has success = false and a non-empty message and none of sessionExists,
\* requiresTwoFactor, requiresChallenge; no session file is touched and a new call can
\* be made
C29_PlainFailure ==
    [][ ( /\ lpc = "running" /\ lpc' = "done"
          /\ \/ ended' = "error"
             \/ ended' = "code1" /\ Unrecognized(Join(stderr)) ) =>
            LET resp == LoginRoute(result')
            IN  /\ DOMAIN resp = {"success", "message"}
                /\ resp.success = FALSE
                /\ resp.message # ""
                /\ sessionFiles' = sessionFiles ]_vars

C29_Witness ==
    /\ lpc = "done" /\ ended = "code1"
    /\ result = [success |-> FALSE, message |-> "Login failed"]
    /\ spawns = 1

\* C30: when the login process exits and its output does not parse, the call returns
\* success = false with a message
C30_UnparsableIsFailure ==
    [][ ( /\ lpc = "running" /\ lpc' = "done"
          /\ ended' \in {"code0", "code1"}
          /\ ~JSONparse(stdout).ok ) =>
            /\ "success" \in DOMAIN result' /\ result'.success = FALSE
            /\ "message" \in DOMAIN result' ]_vars

\* C31: every instagramLogin call eventually returns a result or an error to its
\* caller, even when the spawned login process never closes
C31_CallReturns == (lpc = "access") ~> (lpc = "done")

\* C32: a request whose username or password is missing or empty is answered with
\* success = false in the step it arrives in, and that step leaves instagramLogin
\* alone: no call is started, so no session-file check is made and nothing is spawned
C32_MissingCredentialsRejected ==
    [][ ( /\ ~Truthy(req'.username) \/ ~Truthy(req'.password)
          /\ req' # req \/ res' # res ) =>
            /\ res'.status = 400
            /\ res'.body.success = FALSE
            /\ lpc' \notin {"access", "running"}
            /\ UNCHANGED <<lpc, params, args, stdin, result, spawns, ended>> ]_vars

C32_Witness ==
    /\ res.status = 400
    /\ req.username \in Usernames /\ req.password = ""
    /\ lpc = "done" /\ spawns = 1

\* C33: the force kill at the end of a stopBot call's grace period goes to no child
\* but the one that was live when that call was made, also when a startBot call has
\* spawned a new child in the meantime
C33_ForceKillOnlyTarget ==
    [][\A k \in Calls, c \in Children :
          ( /\ calls[k].op = "stop" /\ calls[k].pc = "grace" /\ calls'[k].pc = "done"
            /\ ~children[c].kill9 /\ children'[c].kill9 ) =>
              c = calls[k].target]_vars

\* C34: in every state what getStatus would return as isRunning is true exactly when
\* some child spawned by the supervisor is still alive
C34_IsRunningIffChildAlive ==
    getStatus(botProcess, children, logs).isRunning <=> (Live(children) # {})

\* C35: a step of handle_new_dm for a thread leaves the tracker entries of every other
\* thread as they were, in memory and in the tracker file, and when it changes the
\* tracker in memory the file afterwards holds the whole tracker as it is in memory
C35_OnlyOwnEntryChanges ==
    [][(wpc \in {"scan", "send", "replied"}) =>
          /\ \A t \in (Threads \ {thread.id}) :
                replied_tracker'[t] = replied_tracker[t] /\ tracker_file'[t] = tracker_file[t]
          /\ replied_tracker' # replied_tracker => tracker_file' = replied_tracker']_vars

C35_Witness ==
    /\ wpc = "for"
    /\ prev.id = "t2" /\ prev.m # 0
    /\ replied_tracker["t2"] = prev.m
    /\ replied_tracker["t1"] # 0
    /\ tracker_file = replied_tracker

====
